---- MODULE Spec2Model ----
(***************************************************************************)
(* Rule 190 MIDI renderer (rule190.py): the rule engine under its two      *)
(* boundary policies, the anchored encoding and the closed-form sequence   *)
(* it is validated against, the pitch mapper, the step-count computation   *)
(* and the event scheduler with its delta-time serialisation.              *)
(*                                                                         *)
(* Python lists are modelled as functions over 0..n-1, so that an index of *)
(* the model is the index of the code.                                     *)
(***************************************************************************)
EXTENDS Integers, Sequences, FiniteSets, TLC

VARIABLES
    \* rule engine and anchored encoding, called on bounded inputs
    r_row, r_k, r_padl, r_padr, r_fn, r_out_row, r_out_int,
    \* the validation loop of main
    v_pc, v_steps, v_max_check, v_row_val, v_seq_expected, v_ok, v_t, v_as_int,
    \* build_scale_across_width: its arguments, locals and position
    b_pc, b_width, b_root, b_steps, b_pool, b_octv,
    \* steps_for_8_seconds called on bounded configurations
    d_fn, d_cfg, d_steps,
    \* schedule_events: its arguments, locals and position, and the saved track
    pc, row0, scale, cfg, W, steps, row, age, events, staccato, gate_frac,
    active_notes, s, track, saved

ruleVars == <<r_row, r_k, r_padl, r_padr, r_fn, r_out_row, r_out_int>>

valVars == <<v_pc, v_steps, v_max_check, v_row_val, v_seq_expected, v_ok, v_t,
             v_as_int>>

scaleVars == <<b_pc, b_width, b_root, b_steps, b_pool, b_octv>>

durVars == <<d_fn, d_cfg, d_steps>>

schedVars == <<pc, row0, scale, cfg, W, steps, row, age, events, staccato,
               gate_frac, active_notes, s, track, saved>>

vars == <<ruleVars, valVars, scaleVars, durVars, schedVars>>

-----------------------------------------------------------------------------
(* Python lists *)

len(l) == Cardinality(DOMAIN l)

EmptyList == <<>>

append(l, x) == [i \in 0..len(l) |-> IF i < len(l) THEN l[i] ELSE x]

\* [v] * n
repeat(v, n) == [i \in 0..(n - 1) |-> v]

\* the list l of n cells, evaluated cell by cell
RECURSIVE Evaluated(_, _)
Evaluated(l, n) == IF n = 0 THEN EmptyList ELSE Evaluated(l, n - 1) @@ ((n - 1) :> l[n - 1])

\* l[:n]
prefix(l, n) == [i \in 0..((IF n < len(l) THEN n ELSE len(l)) - 1) |-> l[i]]

-----------------------------------------------------------------------------
(* Python floats: IEEE-754 binary64 values m * 2^e, with the mantissa m a
   natural number of at most 53 significant bits held as a sequence of 15-bit
   limbs, least significant first (TLC's integers have 32 bits). Every
   operation computes the exact result and rounds it to nearest, ties to
   even, as the hardware does. The values of this program are far from the
   subnormal and overflow ranges, which are not modelled. *)

MantissaBits == 53

LimbBase == 2 ^ 15

RECURSIVE SmallBitLen(_)
SmallBitLen(n) == IF n = 0 THEN 0 ELSE 1 + SmallBitLen(n \div 2)

LimbBits == SmallBitLen(LimbBase) - 1

RECURSIVE BigOfInt(_)
BigOfInt(n) == IF n = 0 THEN <<>> ELSE <<n % LimbBase>> \o BigOfInt(n \div LimbBase)

RECURSIVE BigToInt(_)
BigToInt(a) == IF a = <<>> THEN 0 ELSE Head(a) + LimbBase * BigToInt(Tail(a))

RECURSIVE BigTrim(_)
BigTrim(a) ==
    IF a = <<>> THEN a
    ELSE IF a[Len(a)] = 0 THEN BigTrim(SubSeq(a, 1, Len(a) - 1)) ELSE a

RECURSIVE BigCmpAt(_, _, _)
BigCmpAt(a, b, i) ==
    IF i = 0 THEN 0
    ELSE IF a[i] < b[i] THEN -1
    ELSE IF a[i] > b[i] THEN 1
    ELSE BigCmpAt(a, b, i - 1)

\* -1, 0 or 1 as a < b, a = b or a > b
BigCmp(a, b) ==
    IF Len(a) < Len(b) THEN -1
    ELSE IF Len(a) > Len(b) THEN 1
    ELSE BigCmpAt(a, b, Len(a))

RECURSIVE BigAddC(_, _, _)
BigAddC(a, b, c) ==
    IF a = <<>> /\ b = <<>> THEN (IF c = 0 THEN <<>> ELSE <<c>>)
    ELSE LET x == (IF a = <<>> THEN 0 ELSE Head(a))
                  + (IF b = <<>> THEN 0 ELSE Head(b)) + c
         IN  <<x % LimbBase>>
             \o BigAddC(IF a = <<>> THEN a ELSE Tail(a),
                        IF b = <<>> THEN b ELSE Tail(b), x \div LimbBase)

BigAdd(a, b) == BigAddC(a, b, 0)

RECURSIVE BigSubB(_, _, _)
BigSubB(a, b, c) ==
    IF a = <<>> THEN <<>>
    ELSE LET x == Head(a) - (IF b = <<>> THEN 0 ELSE Head(b)) - c
         IN  <<x % LimbBase>>
             \o BigSubB(Tail(a), IF b = <<>> THEN b ELSE Tail(b),
                        IF x < 0 THEN 1 ELSE 0)

\* a - b, for a >= b
BigSub(a, b) == BigTrim(BigSubB(a, b, 0))

RECURSIVE BigMulSmallC(_, _, _)
BigMulSmallC(a, k, c) ==
    IF a = <<>> THEN (IF c = 0 THEN <<>> ELSE <<c>>)
    ELSE LET x == Head(a) * k + c
         IN  <<x % LimbBase>> \o BigMulSmallC(Tail(a), k, x \div LimbBase)

\* a * k, for 0 <= k < LimbBase
BigMulSmall(a, k) == IF k = 0 THEN <<>> ELSE BigMulSmallC(a, k, 0)

RECURSIVE BigMul(_, _)
BigMul(a, b) ==
    IF a = <<>> \/ b = <<>> THEN <<>>
    ELSE LET rest == BigMul(a, Tail(b))
         IN  BigAdd(BigMulSmall(a, Head(b)),
                    IF rest = <<>> THEN rest ELSE <<0>> \o rest)

\* a * 2^n
BigShl(a, n) ==
    IF a = <<>> THEN a
    ELSE [i \in 1..(n \div LimbBits) |-> 0] \o BigMulSmall(a, 2 ^ (n % LimbBits))

RECURSIVE BigDivSmallAt(_, _, _, _)
BigDivSmallAt(a, i, r, d) ==
    IF i = 0 THEN <<>>
    ELSE LET cur == r * LimbBase + a[i]
         IN  Append(BigDivSmallAt(a, i - 1, cur % d, d), cur \div d)

\* a \div 2^n
BigShr(a, n) ==
    LET drop == n \div LimbBits
        top  == IF drop >= Len(a) THEN <<>> ELSE SubSeq(a, drop + 1, Len(a))
    IN  BigTrim(BigDivSmallAt(top, Len(top), 0, 2 ^ (n % LimbBits)))

BigBitLen(a) ==
    IF a = <<>> THEN 0 ELSE LimbBits * (Len(a) - 1) + SmallBitLen(a[Len(a)])

\* bit i of a, bit 0 the least significant
BigBit(a, i) ==
    IF i \div LimbBits >= Len(a) THEN 0
    ELSE (a[i \div LimbBits + 1] \div 2 ^ (i % LimbBits)) % 2

\* the largest digit d in lo..hi with b * d <= r, by bisection
RECURSIVE BigQuotDigit(_, _, _, _)
BigQuotDigit(r, b, lo, hi) ==
    IF lo = hi THEN lo
    ELSE LET mid == (lo + hi + 1) \div 2
         IN  IF BigCmp(BigMulSmall(b, mid), r) <= 0
             THEN BigQuotDigit(r, b, mid, hi)
             ELSE BigQuotDigit(r, b, lo, mid - 1)

\* long division of the limbs i.. of a by b: <<quotient, remainder>>
RECURSIVE BigDivModAt(_, _, _)
BigDivModAt(a, b, i) ==
    IF i > Len(a) THEN <<(<<>>), (<<>>)>>
    ELSE LET p  == BigDivModAt(a, b, i + 1)
             r2 == BigTrim(<<a[i]>> \o p[2])
             d  == BigQuotDigit(r2, b, 0, LimbBase - 1)
         IN  <<BigTrim(<<d>> \o p[1]), BigSub(r2, BigMulSmall(b, d))>>

BigDivMod(a, b) == BigDivModAt(a, b, 1)

\* the float nearest to (q + a fraction below 1, non-zero iff sticky) * 2^e
FRound(q, sticky, e) ==
    LET bl == BigBitLen(q) IN
    IF bl <= MantissaBits THEN [m |-> q, e |-> e]
    ELSE LET sh   == bl - MantissaBits
             m0   == BigShr(q, sh)
             low  == BigSub(q, BigShl(m0, sh))
             c    == BigCmp(low, BigShl(<<1>>, sh - 1))
             up   == c = 1 \/ (c = 0 /\ (sticky \/ BigBit(m0, 0) = 1))
         IN  [m |-> IF up THEN BigAdd(m0, <<1>>) ELSE m0, e |-> e + sh]

\* the float nearest to (a / b) * 2^e, for b > 0
FQuot(a, b, e) ==
    IF a = <<>> THEN [m |-> <<>>, e |-> 0]
    ELSE LET bl == BigBitLen(a) - BigBitLen(b)
             k  == IF MantissaBits + 2 - bl > 0 THEN MantissaBits + 2 - bl ELSE 0
             dm == BigDivMod(BigShl(a, k), b)
         IN  FRound(dm[1], dm[2] # <<>>, e - k)

\* float(n), for an integer 0 <= n < 2^31
FOfInt(n) == [m |-> BigOfInt(n), e |-> 0]

\* f * g
FMul(f, g) == FRound(BigMul(f.m, g.m), FALSE, f.e + g.e)

\* f / g, for g > 0
FDiv(f, g) == FQuot(f.m, g.m, f.e - g.e)

\* f <= g
FLeq(f, g) ==
    LET e == IF f.e < g.e THEN f.e ELSE g.e
    IN  BigCmp(BigShl(f.m, f.e - e), BigShl(g.m, g.e - e)) <= 0

\* math.floor(f) and int(f), for f >= 0
FFloor(f) == BigToInt(IF f.e >= 0 THEN BigShl(f.m, f.e) ELSE BigShr(f.m, -f.e))

\* the least integer at or above f, for f >= 0: math.floor(-f) is its negation
FCeil(f) ==
    IF f.e >= 0 THEN BigToInt(BigShl(f.m, f.e))
    ELSE LET fl == BigShr(f.m, -f.e)
         IN  IF BigCmp(BigShl(fl, -f.e), f.m) = 0 THEN BigToInt(fl)
             ELSE BigToInt(fl) + 1

-----------------------------------------------------------------------------
(* Cellular automaton (Rule 190) *)

\* a table with the entry of neighbourhood 110 set (Rule 254)
RULE190_entry110_set == [n \in 0..7 |-> IF n = 0 THEN 0 ELSE 1]

\* a table with the entry of neighbourhood 000 set (Rule 191)
RULE190_entry000_set == [n \in 0..7 |-> IF n = 6 THEN 0 ELSE 1]

\* RULE190, keyed by (l << 2) | (c << 1) | r
RULE190 ==
    [n \in 0..7 |->
        CASE n = 7 -> 1  [] n = 6 -> 0  [] n = 5 -> 1  [] n = 4 -> 1
          [] n = 3 -> 1  [] n = 2 -> 1  [] n = 1 -> 1  [] n = 0 -> 0]

\* (l << 2) | (c << 1) | r, for bits l, c, r
key(l, c, r) == 4 * l + 2 * c + r

\* a toroidal step that reads 0 beyond the ends instead of wrapping
next_rule190_toroidal_nowrap(rw) ==
    LET n == len(rw) IN
    [i \in 0..(n - 1) |->
        LET l == IF i > 0 THEN rw[i - 1] ELSE 0
            c == rw[i]
            r == IF i < n - 1 THEN rw[i + 1] ELSE 0
        IN  RULE190[key(l, c, r)]]

\* a toroidal step whose result has one cell more than the row
next_rule190_toroidal_longer(rw) ==
    LET n == len(rw) IN
    [i \in 0..n |->
        IF i = n THEN 0
        ELSE LET l == rw[(i - 1) % n]
                 c == rw[i]
                 r == rw[(i + 1) % n]
             IN  RULE190[key(l, c, r)]]

next_rule190_toroidal(rw) ==
    LET n == len(rw) IN
    [i \in 0..(n - 1) |->
        LET l == rw[(i - 1) % n]
            c == rw[i]
            r == rw[(i + 1) % n]
        IN  RULE190[key(l, c, r)]]

next_rule190_fixed0(rw) ==
    LET n == len(rw) IN
    [i \in 0..(n - 1) |->
        LET l == IF i > 0 THEN rw[i - 1] ELSE 0
            c == rw[i]
            r == IF i < n - 1 THEN rw[i + 1] ELSE 0
        IN  RULE190[key(l, c, r)]]

-----------------------------------------------------------------------------
(* Anchored encoding *)

\* the first loop: the rightmost index holding a 1, or -1
rightmost_one(rw) ==
    LET ones == {i \in DOMAIN rw : rw[i] # 0} IN
    IF ones = {} THEN -1 ELSE CHOOSE i \in ones : \A j \in ones : j <= i

\* the second loop from position k down to 0: x |= 1 << bit sets a bit that
\* is still clear in x, which adds 2^bit
RECURSIVE pack_leftward(_, _, _, _)
pack_leftward(rw, k, bit, x) ==
    IF k < 0 THEN x
    ELSE pack_leftward(rw, k - 1, bit + 1,
                       IF rw[k] # 0 THEN x + 2 ^ bit ELSE x)

\* packing that starts at the last cell of the row instead of the anchor
row_to_int_unanchored(rw) ==
    IF rightmost_one(rw) = -1 THEN 0
    ELSE pack_leftward(rw, len(rw) - 1, 0, 0)

row_to_int_anchor_rightmost(rw) ==
    LET idx == rightmost_one(rw) IN
    IF idx = -1 THEN 0 ELSE pack_leftward(rw, idx, 0, 0)

-----------------------------------------------------------------------------
(* Step count *)

Abs(n) == IF n < 0 THEN -n ELSE n

\* 60.0 / cfg.bpm and cfg.q / cfg.ppq raise ZeroDivisionError for a zero
\* divisor, and so does 8.0 / seconds_per_step(cfg) when q is 0
raises_ZeroDivisionError(c) == c.bpm = 0 \/ c.ppq = 0 \/ c.q = 0

\* the sign of seconds_per_step(cfg): rounding to nearest is symmetric, so a
\* float operation on signed operands is the operation on their magnitudes
\* with the sign of the exact result
negative_step(c) == (c.bpm < 0) # ((c.q < 0) # (c.ppq < 0))

\* 60.0 / cfg.bpm * (cfg.q / cfg.ppq), in floats: its magnitude
seconds_per_step(c) ==
    FMul(FDiv(FOfInt(60), FOfInt(Abs(c.bpm))),
         FDiv(FOfInt(Abs(c.q)), FOfInt(Abs(c.ppq))))

\* math.floor(8.0 / seconds_per_step(cfg)), for non-zero bpm, ppq and q
steps_for_8_seconds(c) ==
    LET x == FDiv(FOfInt(8), seconds_per_step(c))
    IN  IF negative_step(c) THEN -FCeil(x) ELSE FFloor(x)

-----------------------------------------------------------------------------
(* The rule engine and the encoding called on every row of bounded width *)

MaxW == 5

Rows(n) == [0..(n - 1) -> {0, 1}]

AllRows == UNION {Rows(n) : n \in 0..MaxW}

\* the row shifted cyclically by k positions to the right
rotate(rw, k) == [i \in DOMAIN rw |-> rw[(i - k) % len(rw)]]

\* the row between padl zeros on the left and padr zeros on the right
padded(rw, padl, padr) ==
    [i \in 0..(padl + len(rw) + padr - 1) |->
        IF i >= padl /\ i < padl + len(rw) THEN rw[i - padl] ELSE 0]

\* a Python list literal
list(seq) == [i \in 0..(Len(seq) - 1) |-> seq[i + 1]]

MaxShift == 3

MaxPad == 2

RuleStart ==
    /\ r_row \in AllRows
    /\ r_k = 0
    /\ r_padl = 0
    /\ r_padr = 0
    /\ r_fn = "none"
    /\ r_out_row = EmptyList
    /\ r_out_int = 0

RuleIdle ==
    /\ r_row = EmptyList
    /\ r_k = 0
    /\ r_padl = 0
    /\ r_padr = 0
    /\ r_fn = "idle"
    /\ r_out_row = EmptyList
    /\ r_out_int = 0

CallToroidal ==
    /\ r_fn = "none"
    /\ r_fn' = "toroidal"
    /\ r_out_row' = next_rule190_toroidal(r_row)
    /\ UNCHANGED <<r_row, r_k, r_padl, r_padr, r_out_int>>

CallToroidalRotated ==
    /\ r_fn = "none"
    /\ r_fn' = "toroidal_rotated"
    /\ \E k \in (-1)..MaxShift :
        /\ r_k' = k
        /\ r_out_row' = next_rule190_toroidal(rotate(r_row, k))
    /\ UNCHANGED <<r_row, r_padl, r_padr, r_out_int>>

CallFixed0 ==
    /\ r_fn = "none"
    /\ r_fn' = "fixed0"
    /\ r_out_row' = next_rule190_fixed0(r_row)
    /\ UNCHANGED <<r_row, r_k, r_padl, r_padr, r_out_int>>

CallEncode ==
    /\ r_fn = "none"
    /\ r_fn' = "encode"
    /\ r_out_int' = row_to_int_anchor_rightmost(r_row)
    /\ UNCHANGED <<r_row, r_k, r_padl, r_padr, r_out_row>>

CallEncodePadded ==
    /\ r_fn = "none"
    /\ r_fn' = "encode_padded"
    /\ \E padl \in 0..MaxPad, padr \in 0..MaxPad :
        /\ r_padl' = padl
        /\ r_padr' = padr
        /\ r_out_int' = row_to_int_anchor_rightmost(padded(r_row, padl, padr))
    /\ UNCHANGED <<r_row, r_k, r_out_row>>

-----------------------------------------------------------------------------
(* Closed-form sequence, and the validation loop of main *)

\* the loop "for _ in range(3, n): a.append(...)", from position i
RECURSIVE extend_sequence(_, _, _)
extend_sequence(a, i, n) ==
    IF i >= n THEN a
    ELSE extend_sequence(
            append(a, 4 * a[len(a) - 1] + a[len(a) - 2] - 4 * a[len(a) - 3]),
            i + 1, n)

\* the recurrence with the coefficient of a[-2] dropped
rule190_single_one_sequence_no_a2(n) ==
    LET RECURSIVE ext(_, _)
        ext(a, i) == IF i >= n THEN a
                     ELSE ext(append(a, 4 * a[len(a) - 1] - 4 * a[len(a) - 3]), i + 1)
    IN  IF n <= 0 THEN EmptyList ELSE prefix(ext(list(<<1, 7, 29>>), 3), n)

rule190_single_one_sequence(n) ==
    IF n <= 0 THEN EmptyList
    ELSE IF n = 1 THEN list(<<1>>)
    ELSE IF n = 2 THEN list(<<1, 7>>)
    ELSE prefix(extend_sequence(list(<<1, 7, 29>>), 3, n), n)

MaxCheck == 10

\* "check first 20 rows"
CheckRows == 20

Min(a, b) == IF a <= b THEN a ELSE b

Max(a, b) == IF a >= b THEN a ELSE b

\* the state at the head of the loop "for t in range(max_check)"
ValStart ==
    /\ v_steps \in 0..MaxCheck
    /\ v_max_check = Min(v_steps, CheckRows)
    /\ v_row_val = [i \in 0..(2 * v_max_check) |-> IF i = v_max_check THEN 1 ELSE 0]
    /\ v_seq_expected = rule190_single_one_sequence(v_max_check)
    /\ v_ok = TRUE
    /\ v_t = 0
    /\ v_as_int = 0
    /\ v_pc = "encode"

ValIdle ==
    /\ v_steps = 0
    /\ v_max_check = 0
    /\ v_row_val = EmptyList
    /\ v_seq_expected = EmptyList
    /\ v_ok = TRUE
    /\ v_t = 0
    /\ v_as_int = 0
    /\ v_pc = "idle"

\* as_int = row_to_int_anchor_rightmost(row_val) and its comparison
ValEncode ==
    /\ v_pc = "encode"
    /\ v_t < v_max_check
    /\ v_as_int' = row_to_int_anchor_rightmost(v_row_val)
    /\ v_ok' = (v_ok /\ v_as_int' = v_seq_expected[v_t])
    /\ v_pc' = "step"
    /\ UNCHANGED <<v_steps, v_max_check, v_row_val, v_seq_expected, v_t>>

\* row_val = next_rule190_fixed0(row_val), and the loop's next t
ValStep ==
    /\ v_pc = "step"
    /\ v_row_val' = next_rule190_fixed0(v_row_val)
    /\ v_t' = v_t + 1
    /\ v_pc' = "encode"
    /\ UNCHANGED <<v_steps, v_max_check, v_seq_expected, v_ok, v_as_int>>

\* the loop is over
ValDone ==
    /\ v_pc = "encode"
    /\ v_t >= v_max_check
    /\ v_pc' = "done"
    /\ UNCHANGED <<v_steps, v_max_check, v_row_val, v_seq_expected, v_ok, v_t,
                   v_as_int>>

-----------------------------------------------------------------------------
(* Scale / pitch mapping *)

NAT_MINOR_STEPS == list(<<0, 2, 3, 5, 7, 8, 10>>)

\* a pitch that ignores the octave
pitch_without_octave(root, octv, d) == root + d

\* root + 12 * octv + d
pitch(root, octv, d) == root + 12 * octv + d

\* "for d in steps: pool.append(...); if len(pool) == width: break", from
\* position j of steps (the offsets)
RECURSIVE stack_octave(_, _, _, _, _, _)
stack_octave(pool, offsets, j, width, root, octv) ==
    IF j >= len(offsets) THEN pool
    ELSE LET pool2 == append(pool, pitch(root, octv, offsets[j]))
         IN  IF len(pool2) = width THEN pool2
             ELSE stack_octave(pool2, offsets, j + 1, width, root, octv)

MaxScaleW == 4

\* the cap on octv, which the loop never reaches when steps is non-empty
MaxOctv == 6

DefaultRoot == 60

OffsetLists ==
    {NAT_MINOR_STEPS, list(<<0>>), list(<<0, 12>>), list(<<0, 4, 7>>),
     list(<<7, 0>>), list(<<0, 0>>), EmptyList}

\* the state on entry: pool = [], octv = 0
ScaleStart ==
    /\ b_width \in 0..MaxScaleW
    /\ b_root \in {DefaultRoot, 0}
    /\ b_steps \in OffsetLists
    /\ b_pool = EmptyList
    /\ b_octv = 0
    /\ b_pc = "while"

ScaleIdle ==
    /\ b_width = 0
    /\ b_root = 0
    /\ b_steps = EmptyList
    /\ b_pool = EmptyList
    /\ b_octv = 0
    /\ b_pc = "idle"

\* one pass of "while len(pool) < width": the for loop, then octv += 1
ScaleOctave ==
    /\ b_pc = "while"
    /\ len(b_pool) < b_width
    /\ b_octv < MaxOctv
    /\ b_pool' = stack_octave(b_pool, b_steps, 0, b_width, b_root, b_octv)
    /\ b_octv' = b_octv + 1
    /\ UNCHANGED <<b_pc, b_width, b_root, b_steps>>

\* the while condition fails: return pool
ScaleReturn ==
    /\ b_pc = "while"
    /\ ~(len(b_pool) < b_width)
    /\ b_pc' = "done"
    /\ UNCHANGED <<b_width, b_root, b_steps, b_pool, b_octv>>

-----------------------------------------------------------------------------
(* The step count called on bounded configurations *)

DurBpm == {1, 15, 60, 120, 150}

DurPpq == {1, 2, 45, 96, 480}

DurQ == {1, 2, 240, 320}

DurStart ==
    /\ d_cfg \in [bpm : DurBpm, ppq : DurPpq, q : DurQ]
    /\ d_fn = "none"
    /\ d_steps = 0

DurIdle ==
    /\ d_cfg = [bpm |-> 1, ppq |-> 1, q |-> 1]
    /\ d_fn = "idle"
    /\ d_steps = 0

CallSteps ==
    /\ d_fn = "none"
    /\ d_fn' = "steps_for_8_seconds"
    /\ d_steps' = steps_for_8_seconds(d_cfg)
    /\ UNCHANGED d_cfg

-----------------------------------------------------------------------------
(* MIDI rendering: schedule_events *)

\* the whole of build_scale_across_width, for non-empty offsets (its steps)
RECURSIVE build_scale_from(_, _, _, _, _)
build_scale_from(pool, octv, width, root, offsets) ==
    IF len(pool) < width
    THEN build_scale_from(stack_octave(pool, offsets, 0, width, root, octv),
                          octv + 1, width, root, offsets)
    ELSE pool

build_scale_across_width(width, root, offsets) ==
    build_scale_from(EmptyList, 0, width, root, offsets)

\* RenderConfig.gate: None, or the float num / den
NoGate == [present |-> FALSE, num |-> 0, den |-> 1]

Gate(num, den) == [present |-> TRUE, num |-> num, den |-> den]

\* the float literal 0.9999
F9999 == FQuot(BigOfInt(9999), BigOfInt(10000), 0)

FZero == [m |-> <<>>, e |-> 0]

\* a clamp to 1.0 instead of 0.9999
gate_fraction_upto_one(gate) ==
    IF ~gate.present THEN [none |-> TRUE, f |-> FZero]
    ELSE IF gate.num <= 0 THEN [none |-> FALSE, f |-> FZero]
    ELSE LET g == FQuot(BigOfInt(gate.num), BigOfInt(gate.den), 0)
         IN  [none |-> FALSE, f |-> IF FLeq(FOfInt(1), g) THEN FOfInt(1) ELSE g]

\* None if cfg.gate is None else max(0.0, min(0.9999, float(cfg.gate)))
gate_fraction(gate) ==
    IF ~gate.present THEN [none |-> TRUE, f |-> FZero]
    ELSE IF gate.num <= 0 THEN [none |-> FALSE, f |-> FZero]
    ELSE LET g == FQuot(BigOfInt(gate.num), BigOfInt(gate.den), 0)
         IN  [none |-> FALSE, f |-> IF FLeq(F9999, g) THEN F9999 ELSE g]

\* staccato for every gate that is present
is_staccato_when_present(gate) == gate.present

\* (cfg.gate is not None) and (cfg.gate > 0.0)
is_staccato(gate) == gate.present /\ gate.num > 0

\* mido messages: the tempo meta message, note_on and note_off
TempoMessage ==
    [meta |-> TRUE, type |-> "set_tempo", note |-> 0, velocity |-> 0, time |-> 0]

NoteOn(note, vel) ==
    [meta |-> FALSE, type |-> "note_on", note |-> note, velocity |-> vel, time |-> 0]

NoteOff(note) ==
    [meta |-> FALSE, type |-> "note_off", note |-> note, velocity |-> 0, time |-> 0]

\* add(tick, msg)
add(evs, tick, msg) == append(evs, [tick |-> tick, msg |-> msg])

\* a velocity without the cap at 110
velocity_uncapped(a) == 30 + 10 * a

\* min(30 + 10 * age, 110)
velocity_of(a) == Min(30 + 10 * a, 110)

\* the indices of S in ascending order, as a list
ascending(S) ==
    [k \in 0..(Cardinality(S) - 1) |->
        CHOOSE i \in S : Cardinality({j \in S : j < i}) = k]

\* sustain mode, first loop: the columns born and the columns dying, in
\* column order, and the ages
births_of(rw, nxt) == ascending({i \in DOMAIN rw : nxt[i] = 1 /\ rw[i] # 1})

deaths_of(rw, nxt) == ascending({i \in DOMAIN rw : rw[i] = 1 /\ nxt[i] # 1})

sustain_age(rw, nxt, ag) ==
    [i \in DOMAIN rw |->
        IF nxt[i] = 1 /\ rw[i] # 1 THEN 1
        ELSE IF nxt[i] = 1 /\ rw[i] = 1 THEN ag[i] + 1
        ELSE IF rw[i] = 1 /\ nxt[i] # 1 THEN 0
        ELSE ag[i]]

\* a note_off for every death, whether or not the note is in active_notes
RECURSIVE emit_deaths_unconditionally(_, _, _, _, _, _)
emit_deaths_unconditionally(deaths, k, sc, base_tick, evs, active) ==
    IF k >= len(deaths) THEN [events |-> evs, active |-> active]
    ELSE LET note == sc[deaths[k]]
         IN  emit_deaths_unconditionally(deaths, k + 1, sc, base_tick,
                 add(evs, base_tick, NoteOff(note)), active \ {note})

\* "for note, _ in deaths", from position k: a note_off for a note that is
\* in active_notes
RECURSIVE emit_deaths(_, _, _, _, _, _)
emit_deaths(deaths, k, sc, base_tick, evs, active) ==
    IF k >= len(deaths) THEN [events |-> evs, active |-> active]
    ELSE LET note == sc[deaths[k]]
         IN  IF note \in active
             THEN emit_deaths(deaths, k + 1, sc, base_tick,
                              add(evs, base_tick, NoteOff(note)), active \ {note})
             ELSE emit_deaths(deaths, k + 1, sc, base_tick, evs, active)

\* "for note, idx in births", from position k
RECURSIVE emit_births(_, _, _, _, _, _, _)
emit_births(births, k, sc, ag, base_tick, evs, active) ==
    IF k >= len(births) THEN [events |-> evs, active |-> active]
    ELSE LET idx  == births[k]
             note == sc[idx]
         IN  emit_births(births, k + 1, sc, ag, base_tick,
                         add(evs, base_tick, NoteOn(note, velocity_of(ag[idx]))),
                         active \cup {note})

\* staccato mode: "for i in range(W)", from column i
staccato_age(rw, nxt, ag) ==
    [i \in DOMAIN rw |->
        IF nxt[i] = 1 THEN (IF rw[i] = 1 THEN ag[i] + 1 ELSE 1) ELSE 0]

RECURSIVE emit_staccato(_, _, _, _, _, _, _)
emit_staccato(i, nxt, sc, ag, base_tick, off_tick, evs) ==
    IF i >= len(nxt) THEN evs
    ELSE IF nxt[i] = 1
    THEN emit_staccato(i + 1, nxt, sc, ag, base_tick, off_tick,
            add(add(evs, base_tick, NoteOn(sc[i], velocity_of(ag[i]))),
                off_tick, NoteOff(sc[i])))
    ELSE emit_staccato(i + 1, nxt, sc, ag, base_tick, off_tick, evs)

\* a flush one tick after end_tick
flush_one_tick_late(evs, active, end_tick) ==
    LET notes == ascending(active)
        n     == len(evs)
    IN  [i \in 0..(n + len(notes) - 1) |->
            IF i < n THEN evs[i]
            ELSE [tick |-> end_tick + 1, msg |-> NoteOff(notes[i - n])]]

\* the final flush: "for note in sorted(active_notes)"
flush(evs, active, end_tick) ==
    LET notes == ascending(active)
        n     == len(evs)
    IN  [i \in 0..(n + len(notes) - 1) |->
            IF i < n THEN evs[i]
            ELSE [tick |-> end_tick, msg |-> NoteOff(notes[i - n])]]

\* a priority that puts note_on before note_off
sort_key_on_first(item) ==
    <<item.tick,
      IF item.msg.meta THEN -1
      ELSE IF item.msg.type = "note_on" THEN 0
      ELSE IF item.msg.type = "note_off" THEN 1 ELSE 2>>

\* sort_key: (tick, pri), meta first, then note_off, then note_on
sort_key(item) ==
    <<item.tick,
      IF item.msg.meta THEN -1
      ELSE IF item.msg.type = "note_off" THEN 0
      ELSE IF item.msg.type = "note_on" THEN 1 ELSE 2>>

key_less(a, b) == a[1] < b[1] \/ (a[1] = b[1] /\ a[2] < b[2])

\* a sort that leaves the events as scheduled
left_unsorted(evs) == evs

\* events.sort(key=sort_key): the sort is stable, so an item goes behind
\* the items of smaller key and the earlier items of equal key
sorted_by_key(evs) ==
    LET n == len(evs)
        pos(i) == Cardinality({j \in 0..(n - 1) :
                     \/ key_less(sort_key(evs[j]), sort_key(evs[i]))
                     \/ (j < i /\ sort_key(evs[j]) = sort_key(evs[i]))})
        place == Evaluated([i \in 0..(n - 1) |-> pos(i)], n)
    IN  [p \in 0..(n - 1) |-> evs[CHOOSE i \in 0..(n - 1) : place[i] = p]]

\* the packing loop: msg.time = max(0, abs_tick - last_tick)
packed(evs) ==
    [i \in DOMAIN evs |->
        LET last_tick == IF i = 0 THEN 0 ELSE evs[i - 1].tick
            delta     == evs[i].tick - last_tick
        IN  [evs[i].msg EXCEPT !.time = Max(0, delta)]]

MaxSchedW == 3

Timing(bpm, ppq, q) == [bpm |-> bpm, ppq |-> ppq, q |-> q]

\* tempo, resolution and step length: 2, 10, 1, 3, 0 and 2 steps
SchedTimings ==
    {Timing(15, 1, 1), Timing(15, 5, 1), Timing(15, 1, 2), Timing(15, 3, 2),
     Timing(15, 1, 4), Timing(15, 16384, 16384)}

SchedGates ==
    {NoGate, Gate(-1, 2), Gate(0, 1), Gate(1, 4), Gate(1, 2), Gate(1, 1),
     Gate(16383, 16384)}

SchedOffsets == {NAT_MINOR_STEPS, list(<<0, 12>>), list(<<0, 0>>), list(<<7, 0>>)}

\* timings with a zero or negative resolution or step length, and a zero
\* tempo: a division by zero, -2, -2, 2 and 3 steps. (A negative tempo goes
\* to mido.bpm2tempo and the set_tempo message, whose code is not part of
\* this program.)
ConfigTimings ==
    {Timing(0, 1, 1), Timing(15, 0, 1), Timing(15, 1, 0), Timing(15, 1, -1),
     Timing(15, -1, 1), Timing(15, -1, -1), Timing(15, -3, -2)}

ConfigGates == {NoGate, Gate(1, 2)}

\* steps_for_8_seconds(cfg), computed once for each timing
StepsOf ==
    [t \in SchedTimings \cup {c \in ConfigTimings : ~raises_ZeroDivisionError(c)} |->
        steps_for_8_seconds(t)]

\* int(cfg.q * gate_frac): int() truncates towards zero
gate_ticks(q, gf) ==
    LET ticks == FFloor(FMul(FOfInt(Abs(q)), gf))
    IN  IF q < 0 THEN -ticks ELSE ticks

\* int(cfg.q * gate_frac), computed once for each step length and gate
GateTicksOf ==
    [x \in {t.q : t \in SchedTimings \cup ConfigTimings} \X (SchedGates \ {NoGate}) |->
        gate_ticks(x[1], gate_fraction(x[2]).f)]

\* the call schedule_events(row0, scale, cfg), the scale being one that
\* build_scale_across_width makes
SchedEntry ==
    /\ \E t \in SchedTimings, g \in SchedGates :
          cfg = [bpm |-> t.bpm, ppq |-> t.ppq, q |-> t.q, gate |-> g]
    /\ \E w \in 0..MaxSchedW :
          /\ row0 \in Rows(w)
          /\ \E st \in SchedOffsets : scale = build_scale_across_width(w, DefaultRoot, st)
    /\ pc = "start"
    /\ W = 0
    /\ steps = 0
    /\ row = EmptyList
    /\ age = EmptyList
    /\ events = EmptyList
    /\ staccato = FALSE
    /\ gate_frac = [none |-> TRUE, f |-> FZero]
    /\ active_notes = {}
    /\ s = 0
    /\ track = EmptyList
    /\ saved = FALSE

\* the call schedule_events(row0, scale, cfg) with a configuration whose
\* tempo, resolution or step length is not positive
ConfigEntry ==
    /\ \E t \in ConfigTimings, g \in ConfigGates :
          cfg = [bpm |-> t.bpm, ppq |-> t.ppq, q |-> t.q, gate |-> g]
    /\ \E w \in 0..MaxSchedW :
          /\ row0 \in Rows(w)
          /\ scale = build_scale_across_width(w, DefaultRoot, NAT_MINOR_STEPS)
    /\ pc = "start"
    /\ W = 0
    /\ steps = 0
    /\ row = EmptyList
    /\ age = EmptyList
    /\ events = EmptyList
    /\ staccato = FALSE
    /\ gate_frac = [none |-> TRUE, f |-> FZero]
    /\ active_notes = {}
    /\ s = 0
    /\ track = EmptyList
    /\ saved = FALSE

SchedIdle ==
    /\ cfg = [bpm |-> 1, ppq |-> 1, q |-> 1, gate |-> NoGate]
    /\ row0 = EmptyList
    /\ scale = EmptyList
    /\ pc = "idle"
    /\ W = 0
    /\ steps = 0
    /\ row = EmptyList
    /\ age = EmptyList
    /\ events = EmptyList
    /\ staccato = FALSE
    /\ gate_frac = [none |-> TRUE, f |-> FZero]
    /\ active_notes = {}
    /\ s = 0
    /\ track = EmptyList
    /\ saved = FALSE

\* lines 138-155: the locals, and the tempo message at tick 0; the call of
\* steps_for_8_seconds on line 139 leaves schedule_events by its
\* ZeroDivisionError
SchedStart ==
    /\ pc = "start"
    /\ IF raises_ZeroDivisionError(cfg)
       THEN /\ pc' = "raised"
            /\ UNCHANGED <<W, steps, row, age, events, staccato, gate_frac,
                           active_notes, s>>
       ELSE /\ W' = len(row0)
            /\ steps' = StepsOf[Timing(cfg.bpm, cfg.ppq, cfg.q)]
            /\ row' = row0
            /\ age' = repeat(0, len(row0))
            /\ events' = add(EmptyList, 0, TempoMessage)
            /\ staccato' = is_staccato(cfg.gate)
            /\ gate_frac' = gate_fraction(cfg.gate)
            /\ active_notes' = {}
            /\ s' = 0
            /\ pc' = "loop"
    /\ UNCHANGED <<row0, scale, cfg, track, saved>>

\* one pass of "for s in range(steps)" in sustain mode
SchedStepSustain ==
    /\ pc = "loop"
    /\ s < steps
    /\ ~staccato
    /\ LET base_tick == s * cfg.q
           nxt       == next_rule190_toroidal(row)
           age2      == sustain_age(row, nxt, age)
           d         == emit_deaths(deaths_of(row, nxt), 0, scale, base_tick,
                                    events, active_notes)
           b         == emit_births(births_of(row, nxt), 0, scale, age2, base_tick,
                                    d.events, d.active)
       IN  /\ age' = age2
           /\ events' = b.events
           /\ active_notes' = b.active
           /\ row' = nxt
    /\ s' = s + 1
    /\ UNCHANGED <<pc, row0, scale, cfg, W, steps, staccato, gate_frac, track, saved>>

\* one pass of "for s in range(steps)" in staccato mode
SchedStepStaccato ==
    /\ pc = "loop"
    /\ s < steps
    /\ staccato
    /\ LET base_tick == s * cfg.q
           nxt       == next_rule190_toroidal(row)
           off_tick  == base_tick + GateTicksOf[<<cfg.q, cfg.gate>>]
           age2      == staccato_age(row, nxt, age)
       IN  /\ age' = age2
           /\ events' = emit_staccato(0, nxt, scale, age2, base_tick, off_tick, events)
           /\ row' = nxt
    /\ s' = s + 1
    /\ UNCHANGED <<pc, row0, scale, cfg, W, steps, staccato, gate_frac,
                   active_notes, track, saved>>

\* lines 202-207: the loop is over; the flush at end_tick in sustain mode
SchedFlush ==
    /\ pc = "loop"
    /\ s >= steps
    /\ IF ~staccato
       THEN /\ events' = flush(events, active_notes, steps * cfg.q)
            /\ active_notes' = {}
       ELSE UNCHANGED <<events, active_notes>>
    /\ pc' = "sort"
    /\ UNCHANGED <<row0, scale, cfg, W, steps, row, age, staccato, gate_frac, s,
                   track, saved>>

\* line 220: events.sort(key=sort_key)
SchedSort ==
    /\ pc = "sort"
    /\ events' = sorted_by_key(events)
    /\ pc' = "pack"
    /\ UNCHANGED <<row0, scale, cfg, W, steps, row, age, staccato, gate_frac,
                   active_notes, s, track, saved>>

\* lines 226-231: the delta times
SchedPack ==
    /\ pc = "pack"
    /\ track' = packed(events)
    /\ pc' = "save"
    /\ UNCHANGED <<row0, scale, cfg, W, steps, row, age, events, staccato,
                   gate_frac, active_notes, s, saved>>

\* lines 233-234: mid.save(cfg.filename)
SchedSave ==
    /\ pc = "save"
    /\ saved' = TRUE
    /\ pc' = "done"
    /\ UNCHANGED <<row0, scale, cfg, W, steps, row, age, events, staccato,
                   gate_frac, active_notes, s, track>>

-----------------------------------------------------------------------------
(* Specifications *)

RuleInit == RuleStart /\ ValIdle /\ ScaleIdle /\ DurIdle /\ SchedIdle

RuleNext ==
    \/ CallToroidal /\ UNCHANGED <<valVars, scaleVars, durVars, schedVars>>
    \/ CallToroidalRotated /\ UNCHANGED <<valVars, scaleVars, durVars, schedVars>>
    \/ CallFixed0 /\ UNCHANGED <<valVars, scaleVars, durVars, schedVars>>
    \/ CallEncode /\ UNCHANGED <<valVars, scaleVars, durVars, schedVars>>
    \/ CallEncodePadded /\ UNCHANGED <<valVars, scaleVars, durVars, schedVars>>

SpecRule == RuleInit /\ [][RuleNext]_vars

ValInit == ValStart /\ RuleIdle /\ ScaleIdle /\ DurIdle /\ SchedIdle

ValNext ==
    \/ ValEncode /\ UNCHANGED <<ruleVars, scaleVars, durVars, schedVars>>
    \/ ValStep /\ UNCHANGED <<ruleVars, scaleVars, durVars, schedVars>>
    \/ ValDone /\ UNCHANGED <<ruleVars, scaleVars, durVars, schedVars>>

SpecValidate == ValInit /\ [][ValNext]_vars

ScaleInit == ScaleStart /\ RuleIdle /\ ValIdle /\ DurIdle /\ SchedIdle

ScaleNext ==
    \/ ScaleOctave /\ UNCHANGED <<ruleVars, valVars, durVars, schedVars>>
    \/ ScaleReturn /\ UNCHANGED <<ruleVars, valVars, durVars, schedVars>>

SpecScale == ScaleInit /\ [][ScaleNext]_vars

DurInit == DurStart /\ RuleIdle /\ ValIdle /\ ScaleIdle /\ SchedIdle

DurNext == CallSteps /\ UNCHANGED <<ruleVars, valVars, scaleVars, schedVars>>

SpecDuration == DurInit /\ [][DurNext]_vars

Init == SchedEntry /\ RuleIdle /\ ValIdle /\ ScaleIdle /\ DurIdle

Next ==
    \/ SchedStart /\ UNCHANGED <<ruleVars, valVars, scaleVars, durVars>>
    \/ SchedStepSustain /\ UNCHANGED <<ruleVars, valVars, scaleVars, durVars>>
    \/ SchedStepStaccato /\ UNCHANGED <<ruleVars, valVars, scaleVars, durVars>>
    \/ SchedFlush /\ UNCHANGED <<ruleVars, valVars, scaleVars, durVars>>
    \/ SchedSort /\ UNCHANGED <<ruleVars, valVars, scaleVars, durVars>>
    \/ SchedPack /\ UNCHANGED <<ruleVars, valVars, scaleVars, durVars>>
    \/ SchedSave /\ UNCHANGED <<ruleVars, valVars, scaleVars, durVars>>

Spec == Init /\ [][Next]_vars

\* schedule_events called with a timing that is not positive
ConfigInit == ConfigEntry /\ RuleIdle /\ ValIdle /\ ScaleIdle /\ DurIdle

SpecConfig == ConfigInit /\ [][Next]_vars

-----------------------------------------------------------------------------
(* Claims about the rule engine *)

\* the Rule-190 table as the specification writes it
Rule190Table(l, m, r) == IF <<l, m, r>> \in {<<1, 1, 0>>, <<0, 0, 0>>} THEN 0 ELSE 1

\* the cell at index i, 0 when i is out of range
CellOrZero(rw, i) == IF i \in DOMAIN rw THEN rw[i] ELSE 0

(* C1: every cell of the toroidal step and of the fixed-zero step is the
   Rule-190 table value of its neighbourhood, the neighbours wrapping modulo W
   under the toroidal policy and reading 0 out of range under the fixed-zero
   policy; one toroidal step of [0,0,1,0,0] gives [0,1,1,1,0]. *)
C1_StepIsTableLookup ==
    LET n == len(r_row) IN
    /\ r_fn = "toroidal" =>
          /\ DOMAIN r_out_row = DOMAIN r_row
          /\ \A i \in DOMAIN r_row :
                r_out_row[i] = Rule190Table(r_row[(i - 1) % n], r_row[i],
                                            r_row[(i + 1) % n])
          /\ r_row = list(<<0, 0, 1, 0, 0>>) => r_out_row = list(<<0, 1, 1, 1, 0>>)
    /\ r_fn = "fixed0" =>
          /\ DOMAIN r_out_row = DOMAIN r_row
          /\ \A i \in DOMAIN r_row :
                r_out_row[i] = Rule190Table(CellOrZero(r_row, i - 1), r_row[i],
                                            CellOrZero(r_row, i + 1))

C1_Witness ==
    /\ r_fn = "toroidal"
    /\ r_row = list(<<0, 0, 1, 0, 0>>)
    /\ r_out_row = list(<<0, 1, 1, 1, 0>>)

(* C2: the toroidal step commutes with cyclic rotation: stepping the row
   rotated by k gives the stepped row rotated by k. *)
C2_TranslationEquivariant ==
    (r_fn = "toroidal_rotated" /\ len(r_row) >= 1) =>
        r_out_row = rotate(next_rule190_toroidal(r_row), r_k)

C2_Witness ==
    /\ r_fn = "toroidal_rotated"
    /\ r_k = 1
    /\ r_row = list(<<1, 1, 0, 0, 0>>)
    /\ r_out_row = list(<<1, 1, 0, 1, 0>>)

(* C3: in the validation run with check-count N (1..MaxCheck), the anchored
   encoding of the fixed-zero row at checked step t equals element t of
   rule190_single_one_sequence(N), which is a(0)=1, a(1)=7, a(2)=29,
   a(t) = 4 a(t-1) + a(t-2) - 4 a(t-3); so no mismatch is ever recorded. *)
RECURSIVE ClosedForm(_)
ClosedForm(t) ==
    CASE t = 0 -> 1
      [] t = 1 -> 7
      [] t = 2 -> 29
      [] OTHER -> 4 * ClosedForm(t - 1) + ClosedForm(t - 2) - 4 * ClosedForm(t - 3)

C3_EncodingFollowsRecurrence ==
    /\ v_pc = "step" =>
          /\ v_as_int = v_seq_expected[v_t]
          /\ v_seq_expected[v_t] = ClosedForm(v_t)
    /\ v_pc # "idle" =>
          /\ v_ok
          /\ len(v_seq_expected) = v_max_check
          /\ len(v_row_val) = 1 + 2 * v_max_check

C3_Witness ==
    /\ v_pc = "step"
    /\ v_max_check = 10
    /\ v_t = 9
    /\ v_as_int = 489335

\* the row after t fixed-zero steps
RECURSIVE SteppedFixed0(_, _)
SteppedFixed0(rw, t) == IF t = 0 THEN rw ELSE SteppedFixed0(next_rule190_fixed0(rw), t - 1)

(* C17: in the validation run with check-count N the row of every checked
   step t < N has 1 + 2N cells, its live cells lie within N-t..N+t, its two
   boundary cells are 0, and it is the row the same seed gives in a row that
   is one cell wider on each side: the boundary has not influenced it. *)
C17_LightConeInsideRow ==
    (v_pc \in {"encode", "step"} /\ v_t < v_max_check) =>
        LET seed == [i \in 0..(2 * v_max_check) |-> IF i = v_max_check THEN 1 ELSE 0] IN
        /\ len(v_row_val) = 1 + 2 * v_max_check
        /\ \A i \in DOMAIN v_row_val :
              v_row_val[i] = 1 => (v_max_check - v_t <= i /\ i <= v_max_check + v_t)
        /\ v_row_val[0] = 0
        /\ v_row_val[2 * v_max_check] = 0
        /\ padded(v_row_val, 1, 1) = SteppedFixed0(padded(seed, 1, 1), v_t)

\* the last checked row for N = 3, whose light cone spans cells 1..5
C17_Witness ==
    /\ v_pc = "step"
    /\ v_max_check = 3
    /\ v_t = 2
    /\ v_row_val = list(<<0, 1, 1, 1, 0, 1, 0>>)

(* C10: the anchored encoding is 0 for a row without a 1; otherwise, with p
   the index of the rightmost 1, it is the sum over k in 0..p of
   row[k] * 2^(p-k); it is odd whenever it is non-zero, and zeros appended on
   the right or prepended on the left do not change it. *)
RECURSIVE AnchoredSum(_, _, _)
AnchoredSum(rw, p, k) ==
    IF k > p THEN 0 ELSE rw[k] * 2 ^ (p - k) + AnchoredSum(rw, p, k + 1)

AnchoredValue(rw) ==
    IF \A i \in DOMAIN rw : rw[i] = 0 THEN 0
    ELSE LET p == CHOOSE i \in DOMAIN rw :
                    rw[i] = 1 /\ \A j \in DOMAIN rw : j > i => rw[j] = 0
         IN  AnchoredSum(rw, p, 0)

C10_AnchoredEncoding ==
    /\ r_fn = "encode" =>
          /\ r_out_int = AnchoredValue(r_row)
          /\ r_out_int # 0 => r_out_int % 2 = 1
    /\ r_fn = "encode_padded" => r_out_int = AnchoredValue(r_row)

C10_Witness ==
    /\ r_fn = "encode_padded"
    /\ r_row = list(<<1, 0, 1, 1, 0>>)
    /\ r_padl = 1
    /\ r_padr = 2
    /\ r_out_int = 11

-----------------------------------------------------------------------------
(* Claims about the pitch mapper and the step count *)

(* C9: for offsets of length K >= 1, build_scale_across_width returns exactly
   W pitches, the pitch of column i being root + 12 * (i div K) +
   offsets[i mod K]; the loop is never cut short by the cap on octv. *)
C9_ScaleCyclesOffsets ==
    LET K == len(b_steps) IN
    /\ (b_pc = "done" /\ K >= 1) =>
          /\ len(b_pool) = b_width
          /\ \A i \in 0..(b_width - 1) :
                b_pool[i] = b_root + 12 * (i \div K) + b_steps[i % K]
    /\ (b_pc = "while" /\ K >= 1 /\ len(b_pool) < b_width) => b_octv < MaxOctv

C9_Witness ==
    /\ b_pc = "done"
    /\ b_width = 4
    /\ b_root = 60
    /\ b_steps = list(<<0, 4, 7>>)
    /\ b_pool = list(<<60, 64, 67, 72>>)

(* C7: for positive bpm, ppq and q the step count is
   floor(8 * bpm * ppq / (60 * q)) in exact arithmetic, so the rendered span
   steps * seconds_per_step is at most 8 seconds and short of it by less than
   one step; 120, 480, 240 give 32 steps. *)
C7_StepsExact ==
    d_fn = "steps_for_8_seconds" =>
        /\ d_steps = (8 * d_cfg.bpm * d_cfg.ppq) \div (60 * d_cfg.q)
        /\ d_steps * 60 * d_cfg.q <= 8 * d_cfg.bpm * d_cfg.ppq
        /\ 8 * d_cfg.bpm * d_cfg.ppq < (d_steps + 1) * 60 * d_cfg.q
        /\ d_cfg = [bpm |-> 120, ppq |-> 480, q |-> 240] => d_steps = 32

-----------------------------------------------------------------------------
(* Claims about the scheduler and the serialised track *)

IsTempo(ev) == ev.msg.meta

IsOn(ev) == ~ev.msg.meta /\ ev.msg.type = "note_on"

IsOff(ev) == ~ev.msg.meta /\ ev.msg.type = "note_off"

\* the note-starts, and the note-stops, of pitch p among the events 0..i
StartsUpTo(evs, p, i) ==
    Cardinality({k \in 0..i : k \in DOMAIN evs /\ IsOn(evs[k]) /\ evs[k].msg.note = p})

StopsUpTo(evs, p, i) ==
    Cardinality({k \in 0..i : k \in DOMAIN evs /\ IsOff(evs[k]) /\ evs[k].msg.note = p})

(* C4: in sustain mode with the gate absent, when scheduling is over the
   active-note set is empty, every pitch has as many note-stops as
   note-starts, and every note-start has its own matching note-stop of the
   same pitch, later in the final order and at a tick at or before
   steps * q. *)
C4_SustainFlushBalanced ==
    (pc = "done" /\ ~cfg.gate.present) =>
        /\ active_notes = {}
        /\ \A i \in DOMAIN events :
              IsOn(events[i]) =>
                LET p == events[i].msg.note IN
                /\ StartsUpTo(events, p, len(events)) = StopsUpTo(events, p, len(events))
                /\ \E j \in DOMAIN events :
                      /\ j > i
                      /\ IsOff(events[j])
                      /\ events[j].msg.note = p
                      /\ StopsUpTo(events, p, j) = StartsUpTo(events, p, i)
                      /\ events[j].tick >= events[i].tick
                      /\ events[j].tick <= steps * cfg.q

(* C5: the final event sequence holds exactly one tempo event, which is the
   first event and has tick 0; ticks never decrease along the sequence; and
   of two events with the same tick a note-stop never follows a note-start
   and the tempo event never follows a note-stop. *)
C5_FinalOrder ==
    pc \in {"pack", "save", "done"} =>
        /\ Cardinality({i \in DOMAIN events : IsTempo(events[i])}) = 1
        /\ IsTempo(events[0])
        /\ events[0].tick = 0
        /\ \A i, j \in DOMAIN events :
              i < j =>
                /\ events[i].tick <= events[j].tick
                /\ events[i].tick = events[j].tick =>
                      /\ ~(IsOn(events[i]) /\ IsOff(events[j]))
                      /\ ~(IsOff(events[i]) /\ IsTempo(events[j]))

\* a step that restrikes a note at the tick of its own stop, and a sustain
\* run whose death and birth share a tick
C5_Witness ==
    /\ pc = "done"
    /\ \E i, j \in DOMAIN events :
          /\ i < j
          /\ events[i].tick = events[j].tick
          /\ events[i].tick > 0
          /\ IsOff(events[i])
          /\ IsOn(events[j])

\* what an event is, without its velocity
Shape(ev) == <<ev.tick, ev.msg.type, ev.msg.note>>

\* the events a step added
Emitted(before, after) ==
    [k \in 0..(len(after) - len(before) - 1) |-> Shape(after[len(before) + k])]

Occurrences(l, x) == Cardinality({k \in DOMAIN l : l[k] = x})

\* the columns alive in row nxt whose pitch is p
AliveWithPitch(nxt, sc, p) == Cardinality({i \in DOMAIN nxt : nxt[i] = 1 /\ sc[i] = p})

\* a staccato step s that emits, for every column alive in the next row, one
\* note-start at s * q and one note-stop of its pitch gateTicks later, and
\* nothing else
StaccatoStepEmits(gateTicks) ==
    LET em == Emitted(events, events')
        on(p)  == <<s * cfg.q, "note_on", p>>
        off(p) == <<s * cfg.q + gateTicks, "note_off", p>>
    IN  /\ \A k \in DOMAIN events : events'[k] = events[k]
        /\ len(em) = 2 * Cardinality({i \in DOMAIN row' : row'[i] = 1})
        /\ \A i \in DOMAIN row' :
              /\ Occurrences(em, on(scale[i])) = AliveWithPitch(row', scale, scale[i])
              /\ Occurrences(em, off(scale[i])) = AliveWithPitch(row', scale, scale[i])

\* floor(q * g) for the gate g = num / den
GateTicksUnclamped(q, gate) == (q * gate.num) \div gate.den

\* floor(q * min(g, 0.9999))
GateTicksClamped(q, gate) ==
    IF gate.num * 10000 >= 9999 * gate.den
    THEN (q * 9999) \div 10000
    ELSE (q * gate.num) \div gate.den

(* C6 as stated, for a gate g in (0, 1): every staccato step s emits, for
   each column alive in the next row, one note-start at s * q and one
   note-stop of the same pitch at s * q + floor(q * g), and nothing for the
   other columns. *)
C6_StopAfterGate ==
    [][(pc = "loop" /\ staccato /\ s' = s + 1
            /\ cfg.gate.num > 0 /\ cfg.gate.num < cfg.gate.den)
        => StaccatoStepEmits(GateTicksUnclamped(cfg.q, cfg.gate))]_vars

(* C6 amended: every staccato step s emits, for each column alive in the
   next row, one note-start at s * q and one note-stop of the same pitch at
   s * q + floor(q * min(g, 0.9999)), and nothing for the other columns. *)
C6_StopAfterClampedGate ==
    [][(pc = "loop" /\ staccato /\ s' = s + 1)
        => StaccatoStepEmits(GateTicksClamped(cfg.q, cfg.gate))]_vars

C6_Witness ==
    /\ pc = "loop"
    /\ staccato
    /\ s = 2
    /\ cfg.q = 16384
    /\ cfg.gate = Gate(16383, 16384)
    /\ \E k \in DOMAIN events : IsOff(events[k]) /\ events[k].tick = 16384 + 16382

\* the sum of the delta times of the messages 0..i of the track
RECURSIVE RunningSum(_, _)
RunningSum(tr, i) == IF i < 0 THEN 0 ELSE tr[i].time + RunningSum(tr, i - 1)

(* C8: in the serialised track every message is the event at the same place
   of the final order, its delta time is that event's absolute tick minus the
   previous event's (the first event's own tick), no delta is negative, and
   the deltas up to a message sum to its event's absolute tick. *)
C8_DeltaTimes ==
    pc \in {"save", "done"} =>
        /\ len(track) = len(events)
        /\ \A i \in DOMAIN track :
              /\ track[i].type = events[i].msg.type
              /\ track[i].note = events[i].msg.note
              /\ track[i].time =
                    events[i].tick - (IF i = 0 THEN 0 ELSE events[i - 1].tick)
              /\ track[i].time >= 0
              /\ RunningSum(track, i) = events[i].tick

C8_Witness ==
    /\ pc = "done"
    /\ saved
    /\ \E i, j \in DOMAIN track : track[i].time = 0 /\ i > 0 /\ track[j].time > 1

\* a list of exactly n cells, each 0 or 1
IsRowOfLength(rw, n) == DOMAIN rw = 0..(n - 1) /\ \A i \in DOMAIN rw : rw[i] \in {0, 1}

(* C13: both step functions return, for every row of W >= 0 cells, a row of
   exactly W cells (the empty row for W = 0); schedule_events never changes
   the caller's row0, and from its set-up on the row it carries, like the
   ages, has W = len(row0) cells at every step, each step replacing the row
   by the toroidal step of the row before. *)
C13_PureLengthPreserving ==
    [][/\ row0' = row0
       /\ \A rw \in Rows(len(row0)) :
             /\ IsRowOfLength(next_rule190_toroidal(rw), len(rw))
             /\ IsRowOfLength(next_rule190_fixed0(rw), len(rw))
             /\ len(rw) = 0 => /\ next_rule190_toroidal(rw) = EmptyList
                               /\ next_rule190_fixed0(rw) = EmptyList
       /\ pc' \notin {"start", "raised"} =>
             /\ W' = len(row0)
             /\ IsRowOfLength(row', W')
             /\ len(age') = W'
       /\ (pc = "loop" /\ s' = s + 1) =>
             /\ row' = next_rule190_toroidal(row)
             /\ len(row') = len(row)]_vars

\* a run of several steps that ends with a row other than the seed row,
\* which is as the caller gave it
C13_Witness ==
    /\ pc = "done"
    /\ s >= 2
    /\ row0 = list(<<0, 0, 1>>)
    /\ row = list(<<1, 1, 1>>)
    /\ W = 3

(* C14: no scheduled event has a tick above the final tick steps * q; in
   sustain mode the flush adds, for every pitch still active after the last
   step, exactly one note-stop, at tick steps * q, and nothing else; in
   staccato mode every note-stop of step s has a tick from s * q on and
   strictly below (s + 1) * q. *)
C14_NoEventPastFinalTick ==
    [][/\ pc' \notin {"start", "raised"} =>
             \A i \in DOMAIN events' : events'[i].tick <= steps' * cfg.q
       /\ (pc = "loop" /\ pc' = "sort" /\ ~staccato) =>
             LET em == Emitted(events, events') IN
             /\ len(em) = Cardinality(active_notes)
             /\ \A p \in active_notes :
                   Occurrences(em, <<steps * cfg.q, "note_off", p>>) = 1
       /\ (pc = "loop" /\ staccato /\ s' = s + 1) =>
             \A k \in DOMAIN events' :
                 (k >= len(events) /\ IsOff(events'[k])) =>
                     /\ events'[k].tick >= s * cfg.q
                     /\ events'[k].tick < (s + 1) * cfg.q]_vars

\* a staccato run whose last note-stop is one tick before the final tick
C14_Witness ==
    /\ pc = "done"
    /\ staccato
    /\ steps >= 1
    /\ cfg.q = 2
    /\ \E i \in DOMAIN events :
          IsOff(events[i]) /\ events[i].tick = steps * cfg.q - 1

\* no two columns of the scale share a pitch
DistinctPitches(sc) == \A i, j \in DOMAIN sc : sc[i] = sc[j] => i = j

(* C15: in staccato mode with a gate in (0, 1) and pairwise-distinct
   pitches, the final order read pitch by pitch alternates note-start,
   note-stop, ...: up to any event a pitch has as many stops as starts or one
   start more, and at the end as many. *)
C15_StaccatoAlternates ==
    (/\ pc = "done"
     /\ staccato
     /\ cfg.gate.num > 0 /\ cfg.gate.num < cfg.gate.den
     /\ cfg.q >= 1
     /\ DistinctPitches(scale)) =>
        \A i \in DOMAIN events :
            ~IsTempo(events[i]) =>
                LET p    == events[i].msg.note
                    open == StartsUpTo(events, p, i) - StopsUpTo(events, p, i)
                IN  /\ open \in {0, 1}
                    /\ StartsUpTo(events, p, len(events)) =
                          StopsUpTo(events, p, len(events))

(* C16 as stated: once schedule_events has chosen its mode, it is in
   staccato mode exactly when the configuration holds a gate, whatever the
   gate's value, and then the effective gate fraction is above 0 and at most
   0.9999. *)
C16_GatePresentMeansStaccato ==
    pc \notin {"start", "raised"} =>
        /\ staccato <=> cfg.gate.present
        /\ cfg.gate.present =>
              /\ ~gate_frac.none
              /\ ~FLeq(gate_frac.f, FZero)
              /\ FLeq(gate_frac.f, F9999)

(* C16 amended: schedule_events is in staccato mode exactly when a gate is
   present and above 0, and then the effective gate fraction is min(gate,
   0.9999), above 0 and at most 0.9999; with a gate that is present and at
   most 0 it is in sustain mode and the gate fraction is 0.0; the gate
   fraction is None exactly when the gate is absent. In sustain mode every
   note-stop is at a step's base tick or the final tick, with no active note
   left at the end. *)
C16_PositiveGateMeansStaccato ==
    pc \notin {"start", "raised"} =>
        /\ staccato <=> (cfg.gate.present /\ cfg.gate.num > 0)
        /\ gate_frac.none <=> ~cfg.gate.present
        /\ staccato =>
              /\ ~FLeq(gate_frac.f, FZero)
              /\ FLeq(gate_frac.f, F9999)
              /\ cfg.gate.num * 10000 < 9999 * cfg.gate.den =>
                    gate_frac.f = FQuot(BigOfInt(cfg.gate.num), BigOfInt(cfg.gate.den), 0)
              /\ cfg.gate.num * 10000 >= 9999 * cfg.gate.den => gate_frac.f = F9999
              /\ active_notes = {}
        /\ (cfg.gate.present /\ ~staccato) => gate_frac.f = FZero
        /\ ~staccato =>
              /\ \A i \in DOMAIN events : events[i].tick % cfg.q = 0
              /\ pc = "done" => active_notes = {}

\* a run with a gate of 0.0, or below, that was rendered in sustain mode
C16_Witness ==
    /\ pc = "done"
    /\ cfg.gate.present
    /\ cfg.gate.num < 0
    /\ ~staccato
    /\ steps >= 2
    /\ \E i \in DOMAIN events : IsOff(events[i]) /\ events[i].tick = steps * cfg.q

\* the rows of a run of n toroidal steps: the seed row rw, then rows 1..n
\* (a sequence, so that row k is History(rw, n)[k + 1])
RECURSIVE History(_, _)
History(rw, n) ==
    IF n = 0 THEN <<rw>>
    ELSE <<rw>> \o History(Evaluated(next_rule190_toroidal(rw), len(rw)), n - 1)

\* the number of consecutive rows n, n - 1, ..., 1 of the history h in which
\* column i is alive
RECURSIVE AliveRun(_, _, _)
AliveRun(h, i, n) ==
    IF n = 0 \/ h[n + 1][i] # 1 THEN 0 ELSE 1 + AliveRun(h, i, n - 1)

\* the note-starts among the events a step added, as <<note, velocity>>
StartsEmitted(before, after) ==
    [k \in 0..(len(after) - len(before) - 1) |->
        LET ev == after[len(before) + k]
        IN  IF IsOn(ev) THEN <<ev.msg.note, ev.msg.velocity>> ELSE <<>>]

(* C18: in both modes, after each step the row is the seed row stepped s
   times and age[i] is the number of consecutive most recent computed rows
   (the seed row not counted) in which column i is alive, so that age[i] = 0
   exactly when column i is dead; every column that starts a note at a step
   (every live column in staccato mode, every born column in sustain mode)
   gets one note-start of velocity min(30 + 10 * age[i], 110) with
   age[i] >= 1, no other note-start is emitted, and every velocity lies in
   40..110. *)
C18_AgeAndVelocity ==
    [][(pc = "loop" /\ s' = s + 1) =>
          LET starting == {i \in DOMAIN row' :
                              row'[i] = 1 /\ (staccato \/ row[i] # 1)}
              on(i)    == <<scale[i], Min(30 + 10 * age'[i], 110)>>
              em       == StartsEmitted(events, events')
              h        == History(row0, s')
          IN  /\ row' = h[s' + 1]
              /\ \A i \in DOMAIN row' :
                    /\ age'[i] = AliveRun(h, i, s')
                    /\ age'[i] = 0 <=> row'[i] = 0
              /\ \A i \in starting :
                    /\ age'[i] >= 1
                    /\ Occurrences(em, on(i)) =
                          Cardinality({j \in starting : on(j) = on(i)})
              /\ Cardinality({k \in DOMAIN em : em[k] # <<>>}) = Cardinality(starting)
              /\ \A k \in DOMAIN em :
                    em[k] # <<>> => (em[k][2] >= 40 /\ em[k][2] <= 110)]_vars

\* a staccato run in which a column has been alive for ten rows: its ninth
\* and tenth note-starts have the capped velocity
C18_Witness ==
    /\ pc = "done"
    /\ staccato
    /\ s = 10
    /\ \E i \in DOMAIN age : age[i] = 10
    /\ \E k \in DOMAIN events :
          /\ IsOn(events[k])
          /\ events[k].msg.velocity = 110
          /\ events[k].tick = 8 * cfg.q
    /\ \E k \in DOMAIN events : IsOn(events[k]) /\ events[k].msg.velocity = 40

\* column i is alive in row n of the history h, and the life it is in began
\* with a birth: the row before its run of live rows is a row of the run in
\* which it is dead
BornInRun(h, i, n) ==
    LET a == AliveRun(h, i, n) IN a >= 1 /\ h[n - a + 1][i] # 1

\* column i has been alive in the seed row and in every row up to row n
AliveSinceSeed(h, i, n) == h[1][i] = 1 /\ AliveRun(h, i, n) = n

(* C19: in sustain mode with pairwise-distinct pitches, after each step the
   active-note set is the set of pitches of the columns that are alive in
   the new row and whose current life began with a birth during the run; the
   step emits one note-start for each born column, one note-stop for each
   dying column whose pitch was active, and nothing else; so a column alive
   since the seed row has no note-start, and no note-stop when it dies. *)
C19_ActiveSetIsBornAndAlive ==
    [][(pc = "loop" /\ s' = s + 1 /\ ~staccato /\ DistinctPitches(scale)) =>
          LET h      == History(row0, s')
              em     == Emitted(events, events')
              born   == {i \in DOMAIN row : row[i] # 1 /\ row'[i] = 1}
              dying  == {i \in DOMAIN row : row[i] = 1 /\ row'[i] # 1}
              on(i)  == <<s * cfg.q, "note_on", scale[i]>>
              off(i) == <<s * cfg.q, "note_off", scale[i]>>
          IN  /\ active_notes' = {scale[i] : i \in {j \in DOMAIN row' : BornInRun(h, j, s')}}
              /\ \A i \in DOMAIN row :
                    /\ Occurrences(em, on(i)) = (IF i \in born THEN 1 ELSE 0)
                    /\ Occurrences(em, off(i)) =
                          (IF i \in dying /\ scale[i] \in active_notes THEN 1 ELSE 0)
                    /\ AliveSinceSeed(h, i, s) =>
                          (Occurrences(em, on(i)) = 0 /\ Occurrences(em, off(i)) = 0)
              /\ len(em) = Cardinality(born)
                             + Cardinality({i \in dying : scale[i] \in active_notes})]_vars

\* the seed row [1,1,0] after its first step: column 1 has died without a
\* note-stop, column 0 lives on without a note-start, column 2 was born
C19_Witness ==
    /\ pc = "loop"
    /\ s = 1
    /\ ~staccato
    /\ DistinctPitches(scale)
    /\ row0 = list(<<1, 1, 0>>)
    /\ row = list(<<1, 0, 1>>)
    /\ active_notes = {scale[2]}
    /\ \A k \in DOMAIN events : ~IsOff(events[k])
    /\ Cardinality({k \in DOMAIN events : IsOn(events[k])}) = 1

(* C20: build_scale_across_width terminates for every width and every
   offsets sequence, the empty one included: every pass of its while loop
   brings the pool closer to width pitches without going beyond, so that the
   loop is left after at most width passes, and it returns exactly width
   pitches. *)
C20_ScaleTerminates ==
    [][/\ (b_pc = "while" /\ b_octv' = b_octv + 1) =>
             /\ len(b_pool') > len(b_pool)
             /\ len(b_pool') <= b_width
       /\ b_pc' = "done" => len(b_pool') = b_width]_vars

-----------------------------------------------------------------------------
(* Claims about configurations that are not positive *)

(* C11: with bpm <= 0, ppq <= 0 or q <= 0 schedule_events fails before any
   automaton step is simulated: it never gets past its entry, no event is
   scheduled and nothing is written. *)
C11_ConfigErrorBeforeSimulation ==
    (cfg.bpm <= 0 \/ cfg.ppq <= 0 \/ cfg.q <= 0) =>
        /\ pc \in {"start", "raised"}
        /\ s = 0
        /\ events = EmptyList
        /\ track = EmptyList
        /\ ~saved

\* the delta of event i of the final order: its tick minus the tick of the
\* event before it, and its own tick for the first event
DeltaOf(evs, i) == evs[i].tick - (IF i = 0 THEN 0 ELSE evs[i - 1].tick)

(* C12: an event whose delta is negative is never written to the track with
   a delta time of 0; the serialiser stops on it instead. *)
C12_NegativeDeltaNotClamped ==
    pc \in {"save", "done"} =>
        \A i \in DOMAIN events :
            DeltaOf(events, i) < 0 => ~(i \in DOMAIN track /\ track[i].time = 0)

====
